---- MODULE Spec2Model ----
(***************************************************************************)
(* The LED light bulb controller of src/script.js (class LEDLightBulb) as  *)
(* a state machine.  One action per callback the browser can deliver: a    *)
(* click or key handler, the brightness slider, the auto-cycle interval    *)
(* and the runtime-counter interval.  Callbacks run to completion, one at  *)
(* a time (the page's single event loop).                                  *)
(*                                                                         *)
(* Units.  powerDraw is kept in tenths of a watt and totalEnergy in        *)
(* hundredths of a watt-hour, the precisions the code rounds them to, so   *)
(* 14.0 W is 140 and 14.0 Wh is 1400.  brightness, runtime, voltage and    *)
(* temperature are the code's integers.                                    *)
(***************************************************************************)
EXTENDS Integers, Sequences, FiniteSets, TLC

VARIABLES
    state,         \* this.state of the LEDLightBulb instance
    localStorage,  \* the item 'ledBulbState' of window.localStorage
    cycles,        \* the live setInterval timers of startAutoCycle, each with its closure
    emitted,       \* what the callback that ran last wrote out (aria text, console log)
    last,          \* history: the callback that ran last and its input
    pre,           \* history: state, localStorage and cycles as that callback found them
    twoBack,       \* history: isOn before the previous of two consecutive togglePower()
    cyclePure,     \* history: no user command has run since the auto-cycle was started
    written,       \* history: saveState has run since the page was loaded
    stopped,       \* history: the command that stopped the auto-cycle, no command since
    switchedOff,   \* history: togglePower turned the bulb off, no user command since
    ticksInRow,    \* history (SpecHour): runtime ticks that counted, in a row
    energyAtStart  \* history (SpecHour): state.totalEnergy when that row began

vars == <<state, localStorage, cycles, emitted, last, pre, twoBack, cyclePure,
          written, stopped, switchedOff, ticksInRow, energyAtStart>>

----------------------------------------------------------------------------
(* Bounds of the model *)

\* The runtime counter stops counting here in Spec.
MaxRuntime == 2
\* The runtime counter stops counting here in SpecHour (an hour and a little more).
MaxHourRuntime == 3602

(* Program constants *)

MinBrightness == 10
MaxBrightness == 100
MinOnBrightness == 30
DefaultBrightness == 50
RatedWatts == 14
BaseTemp == 72
MaxHeatIncrease == 15
ArrowStep == 5
CycleStep == 10
LineVoltage == 120
SecondsPerHour == 3600

\* The double NaN: what parseInt gives for text that is no number and what
\* arithmetic gives for a value that is no number.  It compares false with
\* everything under <, <=, >=, and unequal to everything under !==.
NaN == -999999

(* Inputs *)

\* Values the slider listener or setBrightnessLevel may hand to setBrightness.
BrightnessInputs == {-1000, 10, 20, 30, 35, 100, 1000}

ArrowKeys == {"ArrowLeft", "ArrowRight", "ArrowUp", "ArrowDown"}

\* brightness fields of a record found in storage at start-up; 0 also stands for
\* an absent field (both are falsy in `parsed.brightness || 50`).
StoredBrightness == {-5, 0, 25, 100, 250}
\* The same with a field that is no number ("abc", {}): Math.min makes it NaN.
StoredRawBrightness == StoredBrightness \cup {NaN}
\* Values handed to setBrightness when the caller's text may be no number.
RawBrightnessInputs == {NaN, 35, 100}
\* totalEnergy fields of such a record, in hundredths of a watt-hour.
StoredEnergy == {0, 500}

\* Math.max, Math.min: NaN as soon as an argument is NaN
Max(a, b) == IF a = NaN \/ b = NaN THEN NaN ELSE IF a >= b THEN a ELSE b
Min(a, b) == IF a = NaN \/ b = NaN THEN NaN ELSE IF a <= b THEN a ELSE b

\* a + b, a < b, a <= b, a >= b and a !== b on doubles
Plus(a, b) == IF a = NaN \/ b = NaN THEN NaN ELSE a + b
Less(a, b) == a # NaN /\ b # NaN /\ a < b
AtMost(a, b) == a # NaN /\ b # NaN /\ a <= b
AtLeast(a, b) == a # NaN /\ b # NaN /\ a >= b
StrictNotEqual(a, b) == a = NaN \/ b = NaN \/ a # b

\* JSON.stringify writes NaN as null, which loadState's || treats as it treats 0
Json(x) == IF x = NaN THEN 0 ELSE x

----------------------------------------------------------------------------
(* The storage item *)

NoItem == [kind |-> "none", isOn |-> FALSE, brightness |-> 0, totalEnergy |-> 0]
\* An item JSON.parse throws on.
CorruptItem == [kind |-> "corrupt", isOn |-> FALSE, brightness |-> 0, totalEnergy |-> 0]
Item(on, b, e) == [kind |-> "record", isOn |-> on, brightness |-> b, totalEnergy |-> e]

StoredItems ==
    {NoItem, CorruptItem}
        \cup {Item(on, b, e) : on \in BOOLEAN, b \in StoredBrightness, e \in StoredEnergy}

----------------------------------------------------------------------------
(* Pure parts of the handlers.  A "world" w is the record a handler reads   *)
(* and writes: state, localStorage, cycles, what it has emitted so far,    *)
(* whether it has written the record, whether localStorage.setItem accepts *)
(* a write during this callback, and whether an exception has left the     *)
(* handler (nothing after the throw runs).                                 *)

\* constructor: the initial this.state (lastUpdate is never read and is left out)
constructorState ==
    [isOn |-> FALSE, brightness |-> DefaultBrightness, voltage |-> 0,
     temperature |-> BaseTemp, runtime |-> 0, powerDraw |-> 0, totalEnergy |-> 0,
     autoMode |-> FALSE, autoInterval |-> 0]

\* a plausible slip: the lower limit forgotten
clampedValue_noFloor(value) == Min(MaxBrightness, value)

\* Math.max(10, Math.min(100, value))
clampedValue(value) == Max(MinBrightness, Min(MaxBrightness, value))

\* Math.round((14 * brightness / 100) * 10) / 10, in tenths of a watt; 0 when off
powerDrawOf(on, b) ==
    IF ~on THEN 0 ELSE IF b = NaN THEN NaN ELSE (RatedWatts * b + 5) \div 10

\* Math.round(baseTemp + heatIncrease)
temperatureOf(on, b) ==
    IF ~on THEN BaseTemp
    ELSE IF b = NaN THEN NaN
    ELSE BaseTemp + (MaxHeatIncrease * b + 50) \div 100

\* updateUI: of its five updates only updateStatusPanel writes this.state
updateStatusPanel(st) ==
    [st EXCEPT !.powerDraw = powerDrawOf(st.isOn, st.brightness),
               !.temperature = temperatureOf(st.isOn, st.brightness)]

\* a plausible slip: the status panel not refreshed
updateUI_noStatus(w) == w

updateUI(w) == [w EXCEPT !.state = updateStatusPanel(w.state)]

loadState(st, item) ==
    IF item.kind = "record"
    THEN [st EXCEPT !.isOn = item.isOn,
                    !.brightness =
                        clampedValue(IF item.brightness = 0 THEN DefaultBrightness
                                     ELSE item.brightness),
                    !.totalEnergy = item.totalEnergy]
    ELSE st

emit(w, what) == IF w.thrown THEN w ELSE [w EXCEPT !.emitted = Append(@, what)]

\* a plausible slip: the energy total left out of the record
saveState_noEnergy(w) ==
    [w EXCEPT !.localStorage = Item(w.state.isOn, Json(w.state.brightness), 0),
              !.saved = TRUE]

\* a plausible slip: setItem called outside try/catch, its exception leaves the handler
saveState_uncaught(w) ==
    IF w.writable
    THEN [w EXCEPT !.localStorage =
                       Item(w.state.isOn, Json(w.state.brightness), Json(w.state.totalEnergy)),
                   !.saved = TRUE]
    ELSE [w EXCEPT !.thrown = TRUE]

\* try { localStorage.setItem(...) } catch (error) { console.warn(...) }
saveState(w) ==
    IF w.writable
    THEN [w EXCEPT !.localStorage =
                       Item(w.state.isOn, Json(w.state.brightness), Json(w.state.totalEnergy)),
                   !.saved = TRUE]
    ELSE emit(w, "console.warn:saveState")

\* a plausible slip: the minimum usable level not applied
simulatePowerOnSequence_noRaise(st) == st

simulatePowerOnSequence(st) ==
    IF Less(st.brightness, MinOnBrightness)
    THEN [st EXCEPT !.brightness = MinOnBrightness]
    ELSE st

\* a plausible slip: the switch only ever turns the bulb on
flipPower_onOnly(st) == [st EXCEPT !.isOn = TRUE]

\* this.state.isOn = !this.state.isOn
flipPower(st) == [st EXCEPT !.isOn = ~@]

togglePower(w) ==
    LET flipped == flipPower(w.state)
        st == IF flipped.isOn
              THEN simulatePowerOnSequence([flipped EXCEPT !.voltage = LineVoltage])
              ELSE flipped
    IN  emit(emit(saveState(updateUI([w EXCEPT !.state = st])),
                  "announceStateChange"), "logEvent:toggle")

\* a plausible slip: "above 30%" taken strictly
powersOn_anyValue(st, clamped) == ~st.isOn
powersOn_strict(st, clamped) == ~st.isOn /\ Less(MinOnBrightness, clamped)

\* if (!this.state.isOn && clampedValue >= 30)
powersOn(st, clamped) == ~st.isOn /\ AtLeast(clamped, MinOnBrightness)

\* a plausible slip: the update not guarded by the comparison
brightnessChanged_always(clamped, oldValue) == TRUE

\* if (clampedValue !== oldValue)
brightnessChanged(clamped, oldValue) == StrictNotEqual(clamped, oldValue)

setBrightness(w, value) ==
    LET oldValue == w.state.brightness
        clamped == clampedValue(value)
        st1 == [w.state EXCEPT !.brightness = clamped]
        st2 == IF powersOn(st1, clamped)
               THEN simulatePowerOnSequence([st1 EXCEPT !.isOn = TRUE])
               ELSE st1
    IN  IF brightnessChanged(clamped, oldValue)
        THEN \* the rest of the handler, run on the world as updated so far
             CHOOSE done \in
                 {emit(emit(saveState(updateUI(updated)),
                            "announceBrightnessChange"), "logEvent:brightness")
                      : updated \in {[w EXCEPT !.state = st2]}} : TRUE
        ELSE w

newBrightness(b, key) ==
    IF key \in {"ArrowRight", "ArrowUp"} THEN Min(MaxBrightness, Plus(b, ArrowStep))
    ELSE IF key \in {"ArrowLeft", "ArrowDown"} THEN Max(MinBrightness, Plus(b, -ArrowStep))
    ELSE b

handleArrowKey(w, key) ==
    LET nb == newBrightness(w.state.brightness, key)
    IN  IF StrictNotEqual(nb, w.state.brightness)
        THEN emit(setBrightness(w, nb), "showKeyboardFeedback")
        ELSE w

\* setInterval's handle: any number not in use (0 is null)
freshId(cs) == CHOOSE n \in 1..(Cardinality(cs) + 1) : \A c \in cs : c.id # n

\* a plausible slip: the timer's id not kept, so that stopAutoCycle finds none
startAutoCycle_noHandle(w) ==
    [w EXCEPT !.cycles = @ \cup {[id |-> freshId(w.cycles), direction |-> 1,
                                  currentValue |-> w.state.brightness]}]

startAutoCycle(w) ==
    LET id == freshId(w.cycles)
    IN  [w EXCEPT !.cycles = @ \cup {[id |-> id, direction |-> 1,
                                      currentValue |-> w.state.brightness]},
                  !.state.autoInterval = id]

\* a plausible slip: the interval not cleared
stopAutoCycle_noClear(w) == w

stopAutoCycle(w) ==
    IF w.state.autoInterval # 0
    THEN [w EXCEPT !.cycles = {c \in @ : c.id # w.state.autoInterval},
                   !.state.autoInterval = 0]
    ELSE w

toggleAutoMode(w) ==
    LET w1 == [w EXCEPT !.state.autoMode = ~@]
    IN  IF w1.state.autoMode THEN startAutoCycle(w1) ELSE stopAutoCycle(w1)

\* a plausible slip: the direction not reversed at the limits
cycleStep_noFlip(c) ==
    [c EXCEPT !.currentValue =
        clampedValue(Plus(c.currentValue, c.direction * CycleStep))]

\* The interval callback's update of its closure variables.
cycleStep(c) ==
    LET moved == Plus(c.currentValue, c.direction * CycleStep)
    IN  IF AtLeast(moved, MaxBrightness)
        THEN [c EXCEPT !.currentValue = MaxBrightness, !.direction = -1]
        ELSE IF AtMost(moved, MinBrightness)
        THEN [c EXCEPT !.currentValue = MinBrightness, !.direction = 1]
        ELSE [c EXCEPT !.currentValue = moved]

autoCycleTick(w, c) ==
    LET c2 == cycleStep(c)
    IN  setBrightness([w EXCEPT !.cycles = (@ \ {c}) \cup {c2}], c2.currentValue)

resetToDefault(w) ==
    LET st == [w.state EXCEPT !.isOn = FALSE, !.brightness = DefaultBrightness,
                              !.autoMode = FALSE]
    IN  emit(saveState(updateUI(stopAutoCycle([w EXCEPT !.state = st]))),
             "announceReset")

\* Math.round((powerDraw * (runtime / 3600)) * 100) / 100, in hundredths of a
\* watt-hour.  The product is a double: when it is exactly half-way between two
\* hundredths it lands on either side of the half, so both roundings are admitted.
roundedEnergy(pd, rt) ==
    LET num == pd * rt
        den == (SecondsPerHour \div 10)
        up == (2 * num + den) \div (2 * den)
    IN  IF pd = NaN THEN {NaN}
        ELSE IF (2 * num) % (2 * den) = den THEN {up - 1, up} ELSE {up}

\* a plausible slip: the counter not guarded by isOn
runtimeTick_always(w, energy) ==
    [w EXCEPT !.state.runtime = @ + 1, !.state.totalEnergy = energy]

\* The runtime counter's callback with `energy` the rounded product.
runtimeTick(w, energy) ==
    IF w.state.isOn
    THEN [w EXCEPT !.state.runtime = @ + 1, !.state.totalEnergy = energy]
    ELSE w

----------------------------------------------------------------------------
(* The state machine *)

Snapshot == [state |-> state, localStorage |-> localStorage, cycles |-> cycles]

\* The world a callback starts in, with storage accepting writes or not.
WorldOf(snap, ok) ==
    [state |-> snap.state, localStorage |-> snap.localStorage, cycles |-> snap.cycles,
     emitted |-> <<>>, saved |-> FALSE, writable |-> ok, thrown |-> FALSE]

World == WorldOf(Snapshot, TRUE)

\* No auto-cycle has been stopped since the last other user command.
NotStopped == [by |-> "none", isOn |-> FALSE, brightness |-> 0]

UserOps == {"togglePower", "setBrightness", "handleArrowKey", "toggleAutoMode",
            "resetToDefault"}

\* A callback took the world to `world`; op, arg and key say which one and its input.
Ran(world, op, arg, key) ==
    \E w \in {world} :
        /\ state' = w.state
        /\ localStorage' = w.localStorage
        /\ cycles' = w.cycles
        /\ emitted' = w.emitted
        /\ last' = [op |-> op, arg |-> arg, key |-> key]
        /\ pre' = Snapshot
        /\ twoBack' = IF op = "togglePower" /\ last.op = "togglePower"
                      THEN [valid |-> TRUE, isOn |-> pre.state.isOn]
                      ELSE [valid |-> FALSE, isOn |-> FALSE]
        /\ cyclePure' = IF op = "toggleAutoMode" THEN w.state.autoMode
                        ELSE IF op \in UserOps THEN FALSE
                        ELSE cyclePure
        /\ written' = (written \/ w.saved)
        /\ stopped' = IF op = "resetToDefault" \/ (op = "toggleAutoMode" /\ ~w.state.autoMode)
                      THEN [by |-> op, isOn |-> w.state.isOn, brightness |-> w.state.brightness]
                      ELSE IF op \in UserOps THEN NotStopped
                      ELSE stopped
        /\ switchedOff' = IF op = "togglePower" THEN state.isOn /\ ~w.state.isOn
                          ELSE IF op \in UserOps THEN FALSE
                          ELSE switchedOff

\* new LEDLightBulb(): constructor, then init() = loadState, updateUI,
\* startRuntimeCounter, with any item in storage.
Constructed ==
    /\ localStorage \in StoredItems
    /\ state = updateStatusPanel(loadState(constructorState, localStorage))
    /\ cycles = {}
    /\ emitted = <<>>
    /\ last = [op |-> "init", arg |-> 0, key |-> ""]
    /\ pre = [state |-> constructorState, localStorage |-> localStorage, cycles |-> {}]
    /\ twoBack = [valid |-> FALSE, isOn |-> FALSE]
    /\ cyclePure = FALSE
    /\ written = FALSE
    /\ stopped = NotStopped
    /\ switchedOff = FALSE

\* Spec keeps no count of ticks in a row.
hourVars == <<ticksInRow, energyAtStart>>

Init == Constructed /\ ticksInRow = 0 /\ energyAtStart = 0

TogglePower ==
    /\ Ran(togglePower(World), "togglePower", 0, "")
    /\ UNCHANGED hourVars

SetBrightness ==
    /\ \E v \in BrightnessInputs : Ran(setBrightness(World, v), "setBrightness", v, "")
    /\ UNCHANGED hourVars

HandleArrowKey ==
    /\ \E k \in ArrowKeys : Ran(handleArrowKey(World, k), "handleArrowKey", 0, k)
    /\ UNCHANGED hourVars

ToggleAutoMode ==
    /\ Ran(toggleAutoMode(World), "toggleAutoMode", 0, "")
    /\ UNCHANGED hourVars

ResetToDefault ==
    /\ Ran(resetToDefault(World), "resetToDefault", 0, "")
    /\ UNCHANGED hourVars

AutoCycleTick ==
    /\ \E c \in cycles :
           Ran(autoCycleTick(World, c), "autoCycleTick", cycleStep(c).currentValue, "")
    /\ UNCHANGED hourVars

\* The runtime counter's callback, counting no further than `limit` seconds.
Tick(limit) ==
    /\ state.isOn => state.runtime < limit
    /\ \E e \in roundedEnergy(state.powerDraw, state.runtime + 1) :
           Ran(runtimeTick(World, e), "runtimeTick", 0, "")

RuntimeTick ==
    /\ Tick(MaxRuntime)
    /\ UNCHANGED hourVars

Next ==
    \/ TogglePower
    \/ SetBrightness
    \/ HandleArrowKey
    \/ ToggleAutoMode
    \/ ResetToDefault
    \/ AutoCycleTick
    \/ RuntimeTick

Spec == Init /\ [][Next]_vars

\* An hour of runtime: a bulb restored at full brightness, the switch used only
\* in the first MaxRuntime seconds, and the runtime counter.
InitHour ==
    /\ Constructed
    /\ state.brightness = MaxBrightness
    /\ ticksInRow = 0
    /\ energyAtStart = state.totalEnergy

EarlyTogglePower ==
    /\ state.runtime <= MaxRuntime
    /\ Ran(togglePower(World), "togglePower", 0, "")
    /\ ticksInRow' = 0
    /\ energyAtStart' = state'.totalEnergy

HourRuntimeTick ==
    /\ Tick(MaxHourRuntime)
    /\ ticksInRow' = IF state.isOn THEN ticksInRow + 1 ELSE 0
    /\ energyAtStart' = IF state.isOn THEN energyAtStart ELSE state.totalEnergy

NextHour ==
    \/ EarlyTogglePower
    \/ HourRuntimeTick

SpecHour == InitHour /\ [][NextHour]_vars

\* Storage that may reject a write (quota, private mode): the three commands
\* that save, each with setItem succeeding or throwing.
StorageInputs == {10, 35, 100}

StorageTogglePower ==
    /\ \E ok \in BOOLEAN : Ran(togglePower(WorldOf(Snapshot, ok)), "togglePower", 0, "")
    /\ UNCHANGED hourVars

StorageSetBrightness ==
    /\ \E ok \in BOOLEAN, v \in StorageInputs :
           Ran(setBrightness(WorldOf(Snapshot, ok), v), "setBrightness", v, "")
    /\ UNCHANGED hourVars

StorageResetToDefault ==
    /\ \E ok \in BOOLEAN :
           Ran(resetToDefault(WorldOf(Snapshot, ok)), "resetToDefault", 0, "")
    /\ UNCHANGED hourVars

NextStorage ==
    \/ StorageTogglePower
    \/ StorageSetBrightness
    \/ StorageResetToDefault

SpecStorage == Init /\ [][NextStorage]_vars

\* Input that may be no number: a stored record whose brightness field is
\* not numeric, and setBrightness handed NaN (parseInt of text that is no number).
\* Spec, SpecHour, SpecStorage and SpecLive take numeric input only; what the
\* handlers do with NaN is studied here.
InitRaw ==
    /\ localStorage \in {NoItem, CorruptItem}
           \cup {Item(on, b, e) : on \in BOOLEAN, b \in StoredRawBrightness,
                                  e \in StoredEnergy}
    /\ state = updateStatusPanel(loadState(constructorState, localStorage))
    /\ cycles = {}
    /\ emitted = <<>>
    /\ last = [op |-> "init", arg |-> 0, key |-> ""]
    /\ pre = [state |-> constructorState, localStorage |-> localStorage, cycles |-> {}]
    /\ twoBack = [valid |-> FALSE, isOn |-> FALSE]
    /\ cyclePure = FALSE
    /\ written = FALSE
    /\ stopped = NotStopped
    /\ switchedOff = FALSE
    /\ ticksInRow = 0
    /\ energyAtStart = 0

RawSetBrightness ==
    /\ \E v \in RawBrightnessInputs :
           Ran(setBrightness(World, v), "setBrightness", v, "")
    /\ UNCHANGED hourVars

NextRaw ==
    \/ RawSetBrightness
    \/ TogglePower
    \/ HandleArrowKey
    \/ ResetToDefault
    \/ RuntimeTick

SpecRaw == InitRaw /\ [][NextRaw]_vars

\* The auto-cycle under a fair timer: setInterval keeps firing the callback
\* for as long as the interval is not cleared.  The commands are those that
\* leave a running cycle running, and the button that starts and stops it.
LiveBrightnessInputs == {35}

LiveSetBrightness ==
    /\ \E v \in LiveBrightnessInputs :
           Ran(setBrightness(World, v), "setBrightness", v, "")
    /\ UNCHANGED hourVars

NextLive ==
    \/ ToggleAutoMode
    \/ AutoCycleTick
    \/ TogglePower
    \/ LiveSetBrightness
    \/ HandleArrowKey

SpecLive == Init /\ [][NextLive]_vars /\ WF_vars(AutoCycleTick)

----------------------------------------------------------------------------
(* Properties *)

TheCycle(cs) == CHOOSE c \in cs : TRUE

\* C1: in every reachable state, after a restore from any stored record and
\* after any sequence of commands and ticks, brightness lies in [10, 100].
BrightnessInRange == state.brightness \in 10..100

\* setBrightness was handed a value far below the range and one is at the floor.
BrightnessInRangeWitness ==
    /\ last.op = "setBrightness"
    /\ last.arg = -1000
    /\ pre.state.brightness = 100
    /\ state.brightness = 10

\* C2 as stated: on an off bulb, setBrightness(v) with clamp(v) >= 30 turns the
\* bulb on at brightness clamp(v), whatever the stored brightness.
BrightnessPowersOnAlways ==
    (/\ last.op = "setBrightness"
     /\ ~pre.state.isOn
     /\ Max(10, Min(100, last.arg)) >= 30)
        => (state.isOn /\ state.brightness = Max(10, Min(100, last.arg)))

\* C2 as amended: on an off bulb, setBrightness(v) with clamp(v) >= 30 and
\* clamp(v) different from the stored brightness turns the bulb on at clamp(v).
BrightnessPowersOn ==
    (/\ last.op = "setBrightness"
     /\ ~pre.state.isOn
     /\ Max(10, Min(100, last.arg)) >= 30
     /\ Max(10, Min(100, last.arg)) # pre.state.brightness)
        => (state.isOn /\ state.brightness = Max(10, Min(100, last.arg)))

\* The spec's example: off at 20, setBrightness(35) gives on at 35.
BrightnessPowersOnWitness ==
    /\ last.op = "setBrightness"
    /\ last.arg = 35
    /\ ~pre.state.isOn
    /\ pre.state.brightness = 20
    /\ state.isOn
    /\ state.brightness = 35

\* C3: when a command takes isOn from false to true, brightness afterwards is
\* the larger of 30 and the previous (togglePower) or requested (setBrightness)
\* brightness: at least 30, and unchanged by togglePower when already >= 30.
PowerOnRaisesBrightness ==
    (last.op # "init" /\ ~pre.state.isOn /\ state.isOn)
        => /\ state.brightness >= 30
           /\ last.op = "togglePower"
                 => state.brightness = Max(pre.state.brightness, 30)
           /\ last.op = "setBrightness"
                 => state.brightness = Max(Max(10, Min(100, last.arg)), 30)
           /\ last.op = "autoCycleTick"
                 => state.brightness = Max(last.arg, 30)

\* The spec's example: off with 10 stored, togglePower gives on at 30.
PowerOnRaisesBrightnessWitness ==
    /\ last.op = "togglePower"
    /\ ~pre.state.isOn
    /\ pre.state.brightness = 10
    /\ state.isOn
    /\ state.brightness = 30

\* C4: after two consecutive togglePower calls isOn is what it was before them.
ToggleTwiceRestoresPower == twoBack.valid => state.isOn = twoBack.isOn

\* Two togglePower calls ran in a row, off -> on -> off.
ToggleTwiceRestoresPowerWitness ==
    /\ twoBack.valid
    /\ ~twoBack.isOn
    /\ pre.state.isOn
    /\ ~state.isOn

\* C5: setBrightness(v) with clamp(v) equal to the current brightness changes
\* no state field, not the stored record, and emits nothing.
SameBrightnessIsNoOp ==
    (last.op = "setBrightness" /\ Max(10, Min(100, last.arg)) = pre.state.brightness)
        => /\ state = pre.state
           /\ localStorage = pre.localStorage
           /\ cycles = pre.cycles
           /\ emitted = <<>>

\* setBrightness(1000) on a bulb at 100 whose stored record lags the state.
SameBrightnessIsNoOpWitness ==
    /\ last.op = "setBrightness"
    /\ last.arg = 1000
    /\ pre.state.brightness = 100
    /\ pre.state.isOn
    /\ pre.localStorage.totalEnergy # pre.state.totalEnergy

\* C6: resetToDefault yields isOn = false, brightness = 50, autoMode = false and
\* no auto-cycle timer scheduled, from any state.
ResetYieldsDefaults ==
    last.op = "resetToDefault"
        => /\ ~state.isOn
           /\ state.brightness = 50
           /\ ~state.autoMode
           /\ state.autoInterval = 0
           /\ cycles = {}

\* resetToDefault ran on a lit bulb away from 50 with the auto-cycle running.
ResetYieldsDefaultsWitness ==
    /\ last.op = "resetToDefault"
    /\ pre.state.isOn
    /\ pre.state.brightness = 85
    /\ pre.state.autoMode
    /\ pre.cycles # {}

\* C7: with no user command since the auto-cycle was started, each tick moves
\* brightness 10 in the cycle's direction, capped at 100 where the direction
\* turns to falling and at 10 where it turns to rising; the cycle starts rising
\* from the current brightness; and no tick hands setBrightness a value outside
\* [10, 100].
AutoCycleIsTriangleWave ==
    /\ (last.op = "autoCycleTick") => last.arg \in 10..100
    /\ (last.op = "toggleAutoMode" /\ state.autoMode)
          => /\ Cardinality(cycles) = 1
             /\ TheCycle(cycles).direction = 1
             /\ TheCycle(cycles).currentValue = state.brightness
    /\ (last.op = "autoCycleTick" /\ cyclePure)
          => LET b == pre.state.brightness
                 d == TheCycle(pre.cycles).direction
             IN  /\ Cardinality(pre.cycles) = 1
                 /\ Cardinality(cycles) = 1
                 /\ last.arg = state.brightness
                 /\ d = 1 => /\ state.brightness = Min(100, b + 10)
                             /\ TheCycle(cycles).direction
                                    = IF b + 10 >= 100 THEN -1 ELSE 1
                 /\ d = -1 => /\ state.brightness = Max(10, b - 10)
                              /\ TheCycle(cycles).direction
                                     = IF b - 10 <= 10 THEN 1 ELSE -1

\* A cycle undisturbed since its start has turned at 100 and is falling: its
\* tick from 20 reaches 10, where it turns to rising.
AutoCycleIsTriangleWaveWitness ==
    /\ last.op = "autoCycleTick"
    /\ cyclePure
    /\ pre.state.brightness = 20
    /\ TheCycle(pre.cycles).direction = -1
    /\ state.brightness = 10
    /\ TheCycle(cycles).direction = 1

\* C8 as stated: no step taken while isOn is true lowers totalEnergy.
EnergyNeverDecreasesWhileOn ==
    (last.op # "init" /\ pre.state.isOn)
        => state.totalEnergy >= pre.state.totalEnergy

\* C9 as stated: 3600 runtime ticks in a row on a bulb lit at brightness 100
\* raise totalEnergy by exactly 14.0 Wh, whatever it and runtime were before.
HourAtFullBrightnessAddsFourteen ==
    (ticksInRow = SecondsPerHour /\ state.isOn /\ state.brightness = 100)
        => state.totalEnergy - energyAtStart = 1400

\* C10: a runtime tick on an off bulb leaves runtime, totalEnergy and every
\* other state field unchanged.
TickWhileOffIsNoOp ==
    (last.op = "runtimeTick" /\ ~pre.state.isOn)
        => /\ state = pre.state
           /\ localStorage = pre.localStorage
           /\ cycles = pre.cycles

\* A tick fired on a bulb switched off after it had run and used energy.
TickWhileOffIsNoOpWitness ==
    /\ last.op = "runtimeTick"
    /\ ~pre.state.isOn
    /\ pre.state.runtime > 0
    /\ pre.state.totalEnergy > 0
    /\ state.runtime = pre.state.runtime

\* C11: saveState() followed by loadState() into a freshly constructed state
\* gives back isOn, brightness and totalEnergy, and leaves runtime at 0.
SaveLoadRoundTrip ==
    LET restored == loadState(constructorState, saveState(World).localStorage)
    IN  /\ restored.isOn = state.isOn
        /\ restored.brightness = state.brightness
        /\ restored.totalEnergy = state.totalEnergy
        /\ restored.runtime = 0

\* A lit bulb away from every default, with runtime and energy counted since
\* the record was last written.
SaveLoadRoundTripWitness ==
    /\ state.isOn
    /\ state.brightness = 100
    /\ state.runtime > 0
    /\ state.totalEnergy > 0
    /\ localStorage.totalEnergy # state.totalEnergy
    /\ loadState(constructorState, saveState(World).localStorage).runtime = 0

\* C12 as stated: whenever the session may end after a write, the stored record
\* equals the isOn, brightness and totalEnergy then in memory.
StoredRecordIsCurrent ==
    written => localStorage = Item(state.isOn, state.brightness, state.totalEnergy)

\* What the callback that ran last would have done had storage taken the write.
HadWriteSucceeded ==
    LET w == WorldOf(pre, TRUE)
    IN  IF last.op = "togglePower" THEN togglePower(w)
        ELSE IF last.op = "setBrightness" THEN setBrightness(w, last.arg)
        ELSE resetToDefault(w)

\* The callback that ran last called saveState with a record other than the
\* stored one, and storage did not take it.
WriteRejected ==
    /\ HadWriteSucceeded.saved
    /\ HadWriteSucceeded.localStorage # pre.localStorage
    /\ localStorage = pre.localStorage

\* C13: with no stored item or an unreadable one the page starts from the
\* defaults (off, 50, no energy) with no field half applied; and a command
\* whose write storage rejects completes with the state and the outputs it
\* would have had with the write accepted, leaving only the record as it was.
StorageFailuresAreTolerated ==
    /\ (last.op = "init" /\ localStorage.kind # "record")
          => (~state.isOn /\ state.brightness = 50 /\ state.totalEnergy = 0
              /\ state = pre.state)
    /\ (last.op \in {"togglePower", "setBrightness", "resetToDefault"} /\ WriteRejected)
          => /\ state = HadWriteSucceeded.state
             /\ cycles = HadWriteSucceeded.cycles
             /\ SelectSeq(emitted, LAMBDA x : x # "console.warn:saveState")
                    = HadWriteSucceeded.emitted
             /\ localStorage = pre.localStorage

\* resetToDefault switched a lit bulb off while storage rejected the write: the
\* record still says on.
StorageFailuresAreToleratedWitness ==
    /\ last.op = "resetToDefault"
    /\ WriteRejected
    /\ pre.state.isOn
    /\ ~state.isOn
    /\ localStorage.kind = "record"
    /\ localStorage.isOn
    /\ emitted[Len(emitted)] = "announceReset"

\* C14: between callbacks the cached powerDraw is 14 W times brightness/100
\* rounded to a tenth while the bulb is on, and 0 while it is off.
PowerDrawIsCurrent ==
    state.powerDraw = IF state.isOn THEN (14 * state.brightness + 5) \div 10 ELSE 0

\* setBrightness(35) lit an off bulb: the cached draw went from 0 to 4.9 W.
PowerDrawIsCurrentWitness ==
    /\ last.op = "setBrightness"
    /\ ~pre.state.isOn
    /\ pre.state.powerDraw = 0
    /\ state.isOn
    /\ state.brightness = 35
    /\ state.powerDraw = 49

\* C15 as stated: brightness input that is no number is clamped: after
\* setBrightness(NaN), and after loadState of a record whose brightness is not
\* numeric, brightness is a number in [10, 100].
NonNumericBrightnessIsClamped ==
    (\/ last.op = "setBrightness" /\ last.arg = NaN
     \/ last.op = "init" /\ localStorage.brightness = NaN)
        => state.brightness \in 10..100

\* The value the last command handed to setBrightness.
HandedToSetBrightness ==
    IF last.op = "setBrightness" THEN last.arg
    ELSE newBrightness(pre.state.brightness, last.key)

\* C16: setBrightness(v) with clamp(v) < 30 leaves isOn as it was and leaves
\* brightness at clamp(v), for an off bulb and for an on bulb; and setBrightness
\* never turns an on bulb off, whatever v.
LowBrightnessKeepsPower ==
    last.op \in {"setBrightness", "handleArrowKey"} =>
        /\ clampedValue(HandedToSetBrightness) < MinOnBrightness =>
              /\ state.isOn = pre.state.isOn
              /\ state.brightness = clampedValue(HandedToSetBrightness)
        /\ pre.state.isOn => state.isOn

LowBrightnessKeepsPowerWitness ==
    /\ last.op = "setBrightness"
    /\ last.arg = 20
    /\ ~pre.state.isOn
    /\ pre.state.brightness = 50
    /\ ~state.isOn
    /\ state.brightness = 20

\* C17: from the command that stops the auto-cycle (toggleAutoMode switching
\* it off, or resetToDefault) until the next user command, through every timer
\* callback, isOn and brightness stay what that command left, off and 50 after
\* resetToDefault; and stopAutoCycle with no cycle running changes nothing.
NoTimerChangeAfterStop ==
    /\ stopped.by # "none" =>
          /\ state.isOn = stopped.isOn
          /\ state.brightness = stopped.brightness
    /\ stopped.by = "resetToDefault" =>
          /\ ~state.isOn
          /\ state.brightness = DefaultBrightness
    /\ cycles = {} => stopAutoCycle(World) = World

\* The runtime counter fired and counted after toggleAutoMode stopped a cycle
\* that had moved the brightness.
NoTimerChangeAfterStopWitness ==
    /\ stopped.by = "toggleAutoMode"
    /\ last.op = "runtimeTick"
    /\ state.runtime = pre.state.runtime + 1
    /\ cycles = {}
    /\ state.brightness = stopped.brightness

\* C18: if from some point on the auto-cycle stays active, then with
\* its timer firing fairly brightness equals 100 infinitely often and equals 10
\* infinitely often, whatever togglePower, setBrightness and arrow-key
\* commands are interleaved.
AutoCycleReachesBothEnds ==
    (<>[](state.autoMode))
        => ([]<>(state.brightness = MaxBrightness) /\ []<>(state.brightness = MinBrightness))


\* C19 as stated: a brightness change powers an off bulb on only when it raises
\* the brightness: after setBrightness or an arrow-key step that lowered the
\* stored brightness of an off bulb, the bulb is still off.
LoweringKeepsOff ==
    (/\ last.op \in {"setBrightness", "handleArrowKey"}
     /\ ~pre.state.isOn
     /\ state.brightness < pre.state.brightness)
        => ~state.isOn

\* C20: autoMode is true exactly when one auto-cycle timer is scheduled; there
\* are never two of them, and none while autoMode is false.
OneTimerIffAutoMode ==
    /\ state.autoMode <=> Cardinality(cycles) = 1
    /\ Cardinality(cycles) <= 1
    /\ ~state.autoMode => cycles = {}

\* toggleAutoMode switched a running cycle off and its one timer is gone.
OneTimerIffAutoModeWitness ==
    /\ last.op = "toggleAutoMode"
    /\ pre.state.autoMode
    /\ Cardinality(pre.cycles) = 1
    /\ ~state.autoMode
    /\ cycles = {}

\* The interval callback put brightness at 100 on its way up, in a cycle that
\* a user command had interleaved with.
AutoCycleReachesBothEndsWitness ==
    /\ last.op = "autoCycleTick"
    /\ state.autoMode
    /\ ~cyclePure
    /\ state.brightness = MaxBrightness
    /\ pre.state.brightness \notin {MaxBrightness - CycleStep, MaxBrightness}

\* C21 as stated: from the togglePower that turns the bulb off until the next
\* user command, isOn stays false: no auto-cycle tick and no runtime tick
\* turns the bulb on, even with the auto-cycle active.
OffUntilNextCommand == switchedOff => ~state.isOn

\* C22 as stated: every auto-cycle tick leaves brightness at most 10 away from
\* the brightness it found, whatever user commands ran between the ticks.
TickStepsFromCurrentBrightness ==
    last.op = "autoCycleTick" =>
        /\ state.brightness - pre.state.brightness <= CycleStep
        /\ pre.state.brightness - state.brightness <= CycleStep

====
